---- MODULE Spec2Model ----
(***************************************************************************)
(* MediBot (src/main.py): the Streamlit script's submit handler and        *)
(* get_medibot_reply, as a state machine.                                  *)
(*                                                                         *)
(* Text values (user input, message content, reply text, base64 data) are  *)
(* sequences of one-character or one-token strings.  The empty sequence is *)
(* Python's "" and is falsy.                                               *)
(***************************************************************************)
EXTENDS Integers, Sequences, FiniteSets, TLC

VARIABLES
    messages,              \* st.session_state.messages
    pc,                    \* position of the script run inside the turn
    uploaded_file,         \* value of the st.file_uploader widget
    attachment_b64,        \* the attachment_b64 local / parameter
    user_input,            \* value of the form's text input in this run
    submitted,             \* value of st.form_submit_button in this run
    language,              \* the language parameter of get_medibot_reply
    conversation_history,  \* the payload list built by get_medibot_reply
    sent,                  \* contents passed to chat.send_message in this call
    calls,                 \* number of chat.send_message calls issued so far
    outcome,               \* what the remote call produced (or a local raise)
    reply_text             \* value returned by get_medibot_reply

vars == <<messages, pc, uploaded_file, attachment_b64, user_input, submitted,
          language, conversation_history, sent, calls, outcome, reply_text>>

----------------------------------------------------------------------------
(* Bounds *)

MaxTurns == 2       \* accepted turns per session
MaxLen == 2         \* characters typed into the text input
MaxFnLen == 2       \* transcript length when get_medibot_reply is driven directly

----------------------------------------------------------------------------
(* Text *)

Chars == {" ", "a"}
Whitespace == {" "}

RECURSIVE SeqsUpTo(_, _)
SeqsUpTo(S, n) ==
    IF n = 0 THEN {<<>>}
    ELSE LET shorter == SeqsUpTo(S, n - 1)
         IN  shorter \cup {Append(s, c) : s \in {t \in shorter : Len(t) = n - 1}, c \in S}

Inputs == SeqsUpTo(Chars, MaxLen)

RECURSIVE lstrip(_)
lstrip(s) ==
    IF s # <<>> /\ Head(s) \in Whitespace THEN lstrip(Tail(s)) ELSE s

RECURSIVE rstrip(_)
rstrip(s) ==
    IF s # <<>> /\ s[Len(s)] \in Whitespace THEN rstrip(SubSeq(s, 1, Len(s) - 1)) ELSE s

strip_keep(s) == s

strip(s) == rstrip(lstrip(s))

----------------------------------------------------------------------------
(* base64.b64encode(file_bytes).decode("utf-8") *)

B64Alphabet ==
    << "A","B","C","D","E","F","G","H","I","J","K","L","M","N","O","P",
       "Q","R","S","T","U","V","W","X","Y","Z","a","b","c","d","e","f",
       "g","h","i","j","k","l","m","n","o","p","q","r","s","t","u","v",
       "w","x","y","z","0","1","2","3","4","5","6","7","8","9","+","/" >>

B64Char(i) == B64Alphabet[i + 1]

RECURSIVE b64encode(_)
b64encode(bytes) ==
    IF Len(bytes) = 0 THEN <<>>
    ELSE IF Len(bytes) = 1 THEN
        << B64Char(bytes[1] \div 4), B64Char((bytes[1] % 4) * 16), "=", "=" >>
    ELSE IF Len(bytes) = 2 THEN
        << B64Char(bytes[1] \div 4),
           B64Char((bytes[1] % 4) * 16 + bytes[2] \div 16),
           B64Char((bytes[2] % 16) * 4), "=" >>
    ELSE
        << B64Char(bytes[1] \div 4),
           B64Char((bytes[1] % 4) * 16 + bytes[2] \div 16),
           B64Char((bytes[2] % 16) * 4 + bytes[3] \div 64),
           B64Char(bytes[3] % 64) >>
        \o b64encode(SubSeq(bytes, 4, Len(bytes)))

\* Python's None for attachment_b64, and a str value
NoneAttachment == [isNone |-> TRUE, s |-> <<>>]
StrAttachment(s) == [isNone |-> FALSE, s |-> s]

\* truthiness of attachment_b64: None and "" are falsy
Truthy(att) == ~att.isNone /\ att.s # <<>>

\* the uploader widget: None, or an UploadedFile holding bytes
NoFile == [present |-> FALSE, bytes |-> <<>>]
File(bytes) == [present |-> TRUE, bytes |-> bytes]

Uploads == {NoFile, File(<<>>), File(<<137, 80, 78>>), File(<<255, 216>>)}

\* lines 130-133 of the script
ReadAttachment(f) ==
    IF f.present THEN StrAttachment(b64encode(f.bytes)) ELSE NoneAttachment

----------------------------------------------------------------------------
(* Fixed strings *)

SYSTEM_PROMPT_TEMPLATE ==
    << "You are MediBot, a soft-spoken, empathetic medical advisory assistant. [...] - Use the requested language: ",
       "{language}",
       ". - End every response with the disclaimer: 'This is not a substitute for professional medical consultation.'" >>

\* str.format(language=language): every {language} field is replaced
format(template, lang) ==
    [i \in DOMAIN template |-> IF template[i] = "{language}" THEN lang ELSE template[i]]

AckText == << "Understood. I will follow all the provided instructions." >>
SafetyText == << "I'm sorry, I cannot respond to that query. It may have been flagged for safety reasons." >>
RetryText == << "Sorry, I couldn't generate a response. Please try again." >>
InternalErrorText == << "An internal error occurred. Please try again." >>

Languages == {"English", "Hindi"}

----------------------------------------------------------------------------
(* Messages and payload turns *)

Roles == {"user", "assistant"}

Message(role, content) == [role |-> role, content |-> content]

TextPart(c) == [text |-> c]
InlinePart(d) == [inline_data |-> [mime_type |-> "image/png", data |-> d]]
IsInline(p) == "inline_data" \in DOMAIN p

Turn(role, parts) == [role |-> role, parts |-> parts]

\* lines 44-48: one payload turn per message with a known role
RECURSIVE MapMessagesVerbatim(_)
MapMessagesVerbatim(msgs) ==
    IF msgs = <<>> THEN <<>>
    ELSE <<Turn(Head(msgs).role, <<TextPart(Head(msgs).content)>>)>>
         \o MapMessagesVerbatim(Tail(msgs))

RECURSIVE MapMessages(_)
MapMessages(msgs) ==
    IF msgs = <<>> THEN <<>>
    ELSE LET m == Head(msgs)
             rest == MapMessages(Tail(msgs))
         IN  IF m.role = "user" THEN <<Turn("user", <<TextPart(m.content)>>)>> \o rest
             ELSE IF m.role = "assistant" THEN <<Turn("model", <<TextPart(m.content)>>)>> \o rest
             ELSE rest

\* lines 39-48
Unattached(msgs, lang) ==
    << Turn("user", <<TextPart(format(SYSTEM_PROMPT_TEMPLATE, lang))>>),
       Turn("model", <<TextPart(AckText)>>) >>
    \o MapMessages(msgs)

\* lines 50-58: append the inline part to the parts of the last payload turn
AttachFirst(history, att) ==
    IF Truthy(att) /\ Len(history) > 2
    THEN [history EXCEPT ![3].parts = Append(@, InlinePart(att.s))]
    ELSE history

Attach(history, att) ==
    IF Truthy(att) /\ history # <<>>
    THEN [history EXCEPT ![Len(history)].parts = Append(@, InlinePart(att.s))]
    ELSE history

\* lines 39-58
Build(msgs, lang, att) == Attach(Unattached(msgs, lang), att)

----------------------------------------------------------------------------
(* Remote outcomes *)

Pending == [kind |-> "pending", text |-> <<>>, prompt_feedback |-> FALSE]
Raised == [kind |-> "raise", text |-> <<>>, prompt_feedback |-> FALSE]
NoneResponse == [kind |-> "None", text |-> <<>>, prompt_feedback |-> FALSE]
Response(text, fb) == [kind |-> "response", text |-> text, prompt_feedback |-> fb]

ReplyTexts == {<<>>, <<"r">>}

Outcomes ==
    {Raised, NoneResponse} \cup {Response(t, fb) : t \in ReplyTexts, fb \in BOOLEAN}

\* lines 76-86
ExtractRetryOnRaise(o) ==
    IF o.kind = "response" /\ o.text # <<>> THEN o.text
    ELSE IF o.kind = "response" /\ o.prompt_feedback THEN SafetyText
    ELSE RetryText

ExtractFeedbackFirst(o) ==
    IF o.kind = "raise" THEN InternalErrorText
    ELSE IF o.kind = "response" /\ o.prompt_feedback THEN SafetyText
    ELSE IF o.kind = "response" /\ o.text # <<>> THEN o.text
    ELSE RetryText

Extract(o) ==
    IF o.kind = "raise" THEN InternalErrorText
    ELSE IF o.kind = "response" /\ o.text # <<>> THEN o.text
    ELSE IF o.kind = "response" /\ o.prompt_feedback THEN SafetyText
    ELSE RetryText

----------------------------------------------------------------------------
(* The script *)

Init ==
    /\ messages = <<>>
    /\ pc = "Idle"
    /\ uploaded_file = NoFile
    /\ attachment_b64 = NoneAttachment
    /\ user_input = <<>>
    /\ submitted = FALSE
    /\ language = "English"
    /\ conversation_history = <<>>
    /\ sent = <<>>
    /\ calls = 0
    /\ outcome = Pending
    /\ reply_text = <<>>

\* a script run triggered by the uploader widget: nothing is submitted
Upload(f) ==
    /\ pc = "Idle"
    /\ f # uploaded_file
    /\ uploaded_file' = f
    /\ attachment_b64' = ReadAttachment(f)
    /\ user_input' = <<>>
    /\ submitted' = FALSE
    /\ UNCHANGED <<messages, pc, language, conversation_history, sent, calls,
                   outcome, reply_text>>

\* a script run triggered by the form's Send button, up to line 145
SubmitReplacing(t) ==
    /\ pc = "Idle"
    /\ Len(messages) < 2 * MaxTurns
    /\ user_input' = t
    /\ submitted' = TRUE
    /\ attachment_b64' = ReadAttachment(uploaded_file)
    /\ IF strip(t) # <<>>
       THEN /\ messages' = <<Message("user", strip(t))>>
            /\ pc' = "UserAppended"
       ELSE UNCHANGED <<messages, pc>>
    /\ UNCHANGED <<uploaded_file, language, conversation_history, sent, calls,
                   outcome, reply_text>>

Submit(t) ==
    /\ pc = "Idle"
    /\ Len(messages) < 2 * MaxTurns
    /\ user_input' = t
    /\ submitted' = TRUE
    /\ attachment_b64' = ReadAttachment(uploaded_file)
    /\ IF strip(t) # <<>>
       THEN /\ messages' = Append(messages, Message("user", strip(t)))
            /\ pc' = "UserAppended"
       ELSE UNCHANGED <<messages, pc>>
    /\ UNCHANGED <<uploaded_file, language, conversation_history, sent, calls,
                   outcome, reply_text>>

CallGetMedibotReplyTwice(from) ==
    /\ pc = from
    /\ conversation_history' = Build(messages, language, attachment_b64)
    /\ IF messages = <<>>
       THEN /\ outcome' = Raised
            /\ UNCHANGED <<sent, calls>>
       ELSE /\ sent' = <<messages[Len(messages)].content, messages[Len(messages)].content>>
            /\ calls' = calls + 2
            /\ outcome' = Pending
    /\ pc' = "AwaitingRemote"
    /\ UNCHANGED <<messages, uploaded_file, attachment_b64, user_input,
                   submitted, language, reply_text>>

\* get_medibot_reply, lines 35-74: build the payload, start the chat and
\* issue send_message; messages[-1] raises IndexError on an empty list
CallGetMedibotReply(from) ==
    /\ pc = from
    /\ conversation_history' = Build(messages, language, attachment_b64)
    /\ IF messages = <<>>
       THEN /\ outcome' = Raised
            /\ UNCHANGED <<sent, calls>>
       ELSE /\ sent' = <<messages[Len(messages)].content>>
            /\ calls' = calls + 1
            /\ outcome' = Pending
    /\ pc' = "AwaitingRemote"
    /\ UNCHANGED <<messages, uploaded_file, attachment_b64, user_input,
                   submitted, language, reply_text>>

StartRemoteCall == CallGetMedibotReply("UserAppended")

\* the remote endpoint answers or the call raises
RemoteOutcome(o) ==
    /\ pc = "AwaitingRemote"
    /\ outcome = Pending
    /\ outcome' = o
    /\ UNCHANGED <<messages, pc, uploaded_file, attachment_b64, user_input,
                   submitted, language, conversation_history, sent, calls,
                   reply_text>>

\* lines 76-86 and 148-150
AppendReplyUnlessRaised ==
    /\ pc = "AwaitingRemote"
    /\ outcome # Pending
    /\ reply_text' = Extract(outcome)
    /\ messages' = IF outcome.kind = "raise" THEN messages
                   ELSE Append(messages, Message("assistant", Extract(outcome)))
    /\ pc' = "RepliedAppended"
    /\ UNCHANGED <<uploaded_file, attachment_b64, user_input, submitted,
                   language, conversation_history, sent, calls, outcome>>

AppendReply ==
    /\ pc = "AwaitingRemote"
    /\ outcome # Pending
    /\ reply_text' = Extract(outcome)
    /\ messages' = Append(messages, Message("assistant", Extract(outcome)))
    /\ pc' = "RepliedAppended"
    /\ UNCHANGED <<uploaded_file, attachment_b64, user_input, submitted,
                   language, conversation_history, sent, calls, outcome>>

\* line 152: st.rerun() starts a fresh run; the form was cleared on submit
Rerun ==
    /\ pc = "RepliedAppended"
    /\ pc' = "Idle"
    /\ user_input' = <<>>
    /\ submitted' = FALSE
    /\ attachment_b64' = ReadAttachment(uploaded_file)
    /\ conversation_history' = <<>>
    /\ sent' = <<>>
    /\ outcome' = Pending
    /\ reply_text' = <<>>
    /\ UNCHANGED <<messages, uploaded_file, language, calls>>

Next ==
    \/ \E f \in Uploads : Upload(f)
    \/ \E t \in Inputs : Submit(t)
    \/ StartRemoteCall
    \/ \E o \in Outcomes : RemoteOutcome(o)
    \/ AppendReply
    \/ Rerun

Spec == Init /\ [][Next]_vars

\* the script is synchronous: once a turn is accepted it runs to st.rerun(),
\* provided the remote call returns or raises
FairSpec ==
    /\ Spec
    /\ WF_vars(StartRemoteCall)
    /\ WF_vars(\E o \in Outcomes : RemoteOutcome(o))
    /\ WF_vars(AppendReply)
    /\ WF_vars(Rerun)

----------------------------------------------------------------------------
(* get_medibot_reply driven directly, over every transcript, language and  *)
(* attachment within the bounds                                            *)

FnContents == {<<"a">>, <<"a", "a">>}
FnMessages == {Message(r, c) : r \in Roles, c \in FnContents}
FnTranscripts == SeqsUpTo(FnMessages, MaxFnLen)
FnAttachments == {NoneAttachment} \cup {ReadAttachment(f) : f \in Uploads}

FnInit ==
    /\ messages \in FnTranscripts
    /\ pc = "Called"
    /\ uploaded_file = NoFile
    /\ attachment_b64 \in FnAttachments
    /\ user_input = <<>>
    /\ submitted = FALSE
    /\ language \in Languages
    /\ conversation_history = <<>>
    /\ sent = <<>>
    /\ calls = 0
    /\ outcome = Pending
    /\ reply_text = <<>>

FnCall == CallGetMedibotReply("Called")

\* lines 76-86: the function returns its display string
FnReturn ==
    /\ pc = "AwaitingRemote"
    /\ outcome # Pending
    /\ reply_text' = Extract(outcome)
    /\ pc' = "Returned"
    /\ UNCHANGED <<messages, uploaded_file, attachment_b64, user_input,
                   submitted, language, conversation_history, sent, calls,
                   outcome>>

FnNext ==
    \/ FnCall
    \/ \E o \in Outcomes : RemoteOutcome(o)
    \/ FnReturn

FnSpec == FnInit /\ [][FnNext]_vars

----------------------------------------------------------------------------
(* Properties *)

Alternating(msgs) ==
    \A i \in 1..Len(msgs) :
        msgs[i].role = IF i % 2 = 1 THEN "user" ELSE "assistant"

IsPrefix(a, b) == Len(a) <= Len(b) /\ SubSeq(b, 1, Len(a)) = a

IsBlank(s) == \A i \in 1..Len(s) : s[i] \in Whitespace

InlineCount(turn) == Cardinality({j \in 1..Len(turn.parts) : IsInline(turn.parts[j])})

Last(s) == s[Len(s)]

\* C1: the Transcript always alternates user, assistant, ... starting with
\* user, and whenever the loop is idle its length is even (so it ends with an
\* assistant message), whatever the remote outcome of each turn was.
C1_Alternation ==
    /\ Alternating(messages)
    /\ pc = "Idle" => Len(messages) % 2 = 0

C1_Witness ==
    /\ pc = "Idle"
    /\ Len(messages) = 4
    /\ messages[2].content = InternalErrorText
    /\ messages[4].content = SafetyText

\* C2: a submitted non-blank text starts a turn that appends a user Message
\* and then exactly one assistant Message; no other step of the turn touches
\* the Transcript, and every earlier Message stays at its position.
C2_TurnStep ==
    /\ IsPrefix(messages, messages')
    /\ (pc = "Idle" /\ submitted' /\ ~IsBlank(user_input')) =>
          /\ pc' = "UserAppended"
          /\ Len(messages') = Len(messages) + 1
          /\ Last(messages').role = "user"
    /\ (pc = "Idle" /\ ~(submitted' /\ ~IsBlank(user_input'))) =>
          /\ pc' = "Idle"
          /\ messages' = messages
    /\ pc = "UserAppended" =>
          /\ pc' = "AwaitingRemote"
          /\ messages' = messages
    /\ pc = "AwaitingRemote" =>
          \/ pc' = "AwaitingRemote" /\ messages' = messages
          \/ /\ pc' = "RepliedAppended"
             /\ Len(messages') = Len(messages) + 1
             /\ Last(messages').role = "assistant"
             /\ messages'[Len(messages)].role = "user"
    /\ pc = "RepliedAppended" =>
          /\ pc' = "Idle"
          /\ messages' = messages

C2_AppendsTwo == [][C2_TurnStep]_vars

C2_Witness ==
    /\ pc = "RepliedAppended"
    /\ Len(messages) = 4
    /\ user_input = <<" ", "a">>
    /\ messages[3] = Message("user", <<"a">>)

\* C3: submitting an empty or whitespace-only text changes nothing in the
\* Transcript and issues no remote call, with or without an attachment.
C3_BlankStep ==
    (pc = "Idle" /\ submitted' /\ IsBlank(user_input')) =>
        /\ messages' = messages
        /\ calls' = calls
        /\ pc' = "Idle"
        /\ conversation_history' = conversation_history
        /\ sent' = sent

C3_BlankNoOp == [][C3_BlankStep]_vars

C3_Witness ==
    /\ pc = "Idle"
    /\ submitted
    /\ user_input = <<" ", " ">>
    /\ Truthy(attachment_b64)
    /\ Len(messages) = 2
    /\ calls = 1

\* C4: when the remote call raised, the turn still completes: the reply is
\* the fixed internal-error string, it is appended as the assistant Message
\* after the turn's user Message, and the Transcript holds two Messages per
\* accepted turn.
C4_RaiseStep ==
    (pc = "AwaitingRemote" /\ outcome.kind = "raise") =>
        /\ pc' = "RepliedAppended"
        /\ reply_text' = InternalErrorText
        /\ messages' = Append(messages, Message("assistant", InternalErrorText))
        /\ Last(messages).role = "user"
        /\ Len(messages') = 2 * calls

C4_RaiseRecovered == [][C4_RaiseStep]_vars

C4_Witness ==
    /\ pc = "RepliedAppended"
    /\ outcome = Raised
    /\ Len(messages) = 4
    /\ messages[4] = Message("assistant", InternalErrorText)

\* C5: the reply is decided in a fixed order: non-empty text verbatim, else
\* the safety apology when feedback is present, else the generic retry
\* string; a raised call gives the internal-error string; the result is
\* never empty.
C5_ExtractOrder ==
    pc = "RepliedAppended" =>
        /\ reply_text # <<>>
        /\ (outcome.kind = "response" /\ outcome.text # <<>>) =>
              reply_text = outcome.text
        /\ (outcome.kind = "response" /\ outcome.text = <<>> /\ outcome.prompt_feedback) =>
              reply_text = SafetyText
        /\ (outcome.kind = "response" /\ outcome.text = <<>> /\ ~outcome.prompt_feedback) =>
              reply_text = RetryText
        /\ outcome.kind = "raise" => reply_text = InternalErrorText

C5_Witness ==
    /\ pc = "RepliedAppended"
    /\ outcome = Response(<<"r">>, TRUE)
    /\ reply_text = <<"r">>

\* C6: the payload is the priming pair (persona directive rendered for the
\* language, then the fixed acknowledgment) followed by one turn per
\* Transcript Message in order, user -> "user", assistant -> "model", the
\* content as first part; its length is 2 + len(transcript).
C6_Payload ==
    pc \in {"AwaitingRemote", "Returned"} =>
        LET h == conversation_history IN
        /\ Len(h) = 2 + Len(messages)
        /\ h[1].role = "user"
        /\ h[1].parts = << TextPart(<< SYSTEM_PROMPT_TEMPLATE[1], language,
                                       SYSTEM_PROMPT_TEMPLATE[3] >>) >>
        /\ h[2].role = "model"
        /\ h[2].parts[1] = TextPart(AckText)
        /\ \A i \in 1..Len(messages) :
              /\ h[2 + i].role = IF messages[i].role = "user" THEN "user" ELSE "model"
              /\ h[2 + i].parts[1] = TextPart(messages[i].content)

C6_Witness ==
    /\ pc = "AwaitingRemote"
    /\ language = "Hindi"
    /\ Len(messages) = 2
    /\ messages[1].role = "assistant"
    /\ messages[2].role = "user"
    /\ Truthy(attachment_b64)

\* C7: in every payload the program builds, only the last turn can carry an
\* inline image part, at most one, and that turn is the newest user message;
\* stored Messages hold only role and content, and building the payload
\* leaves the Transcript unchanged.
C7_Inline ==
    /\ \A i \in 1..Len(messages) : DOMAIN messages[i] = {"role", "content"}
    /\ pc = "AwaitingRemote" =>
          LET h == conversation_history IN
          /\ \A i \in 1..(Len(h) - 1) : InlineCount(h[i]) = 0
          /\ InlineCount(Last(h)) <= 1
          /\ InlineCount(Last(h)) = 1 =>
                /\ Last(h).role = "user"
                /\ Last(h).parts[1] = TextPart(Last(messages).content)
                /\ Last(messages).role = "user"

C7_BuildStep == pc = "UserAppended" => messages' = messages

C7_AttachmentLastOnly == []C7_Inline /\ [][C7_BuildStep]_vars

C7_Witness ==
    /\ pc = "AwaitingRemote"
    /\ Len(messages) = 3
    /\ InlineCount(Last(conversation_history)) = 1
    /\ Len(conversation_history) = 5

\* C8: with an attachment and an empty transcript, no payload turn receives
\* the inline data part and no remote call is made.
C8_EmptyTranscriptAttachment ==
    (pc \in {"AwaitingRemote", "Returned"} /\ messages = <<>> /\ Truthy(attachment_b64)) =>
        /\ \A i \in 1..Len(conversation_history) : InlineCount(conversation_history[i]) = 0
        /\ calls = 0

\* C9: a turn moves Idle -> UserAppended -> AwaitingRemote -> RepliedAppended
\* -> Idle; the call is issued once, after the user Message was appended; the
\* assistant Message is appended only once the call returned or raised; and
\* every turn that appended its user Message eventually appends the paired
\* assistant Message and is Idle again.
C9_Order ==
    /\ pc' # pc =>
          <<pc, pc'>> \in { <<"Idle", "UserAppended">>,
                            <<"UserAppended", "AwaitingRemote">>,
                            <<"AwaitingRemote", "RepliedAppended">>,
                            <<"RepliedAppended", "Idle">> }
    /\ calls' # calls =>
          /\ pc = "UserAppended"
          /\ pc' = "AwaitingRemote"
          /\ calls' = calls + 1
          /\ Last(messages).role = "user"
          /\ Len(messages) = 2 * calls + 1
    /\ (pc = "UserAppended" /\ pc' # pc) => calls' = calls + 1
    /\ Len(messages') > Len(messages) =>
          \/ pc = "Idle" /\ Last(messages').role = "user"
          \/ /\ pc = "AwaitingRemote"
             /\ outcome # Pending
             /\ Last(messages').role = "assistant"

C9_Calls == pc \in {"Idle", "RepliedAppended"} => Len(messages) = 2 * calls

C9_TurnOrder ==
    /\ [][C9_Order]_vars
    /\ []C9_Calls
    /\ \A n \in 1..MaxTurns :
          (pc = "UserAppended" /\ Len(messages) = 2 * n - 1)
             ~> (pc = "Idle" /\ Len(messages) = 2 * n /\ messages[2 * n].role = "assistant")

C9_Witness ==
    /\ pc = "Idle"
    /\ calls = 2
    /\ Len(messages) = 4

\* C10: the conversation the endpoint receives (the start_chat history, then
\* the send_message content as a user turn) holds every Transcript Message
\* exactly once after the priming pair, roles alternating and ending in a
\* single user turn.
Delivered ==
    conversation_history \o [i \in 1..Len(sent) |-> Turn("user", <<TextPart(sent[i])>>)]

C10_DeliveredOnce ==
    (pc = "AwaitingRemote" /\ sent # <<>>) =>
        /\ Len(Delivered) = 2 + Len(messages)
        /\ \A i \in 1..Len(messages) :
              Delivered[2 + i].role = IF i % 2 = 1 THEN "user" ELSE "model"

====
